---- MODULE Spec2Model ----
(***************************************************************************)
(* JobFlow AI: the session / result lifecycle of the React application.    *)
(*                                                                         *)
(* App.tsx holds authUid, profile and step; every handler it passes down   *)
(* closes over the `profile` of the render that created it.  Dashboard,    *)
(* Onboarding and ProfilePage start asynchronous work (a discovery search, *)
(* two 800 ms timers) whose continuation runs the handler captured when    *)
(* the work was started.  storageService mirrors profiles in localStorage. *)
(*                                                                         *)
(* One action is one event handler (or one continuation of an async        *)
(* handler) together with the re-render and the effects React runs before  *)
(* the next event: the [authUid] effect and the [profile] effect of App.   *)
(*                                                                         *)
(* Of the two parameter lists (countries, titles) the countries are        *)
(* modelled; every statement that handles selectedCountries,               *)
(* suggestedCountries or session.countries has a twin for the titles.  An  *)
(* array is written [ref, items]: ref is the identity of the array object  *)
(* when it was created by the Dashboard in this page load, and 0 for an    *)
(* array whose identity is not followed (parsed from storage, `|| []`).    *)
(*                                                                         *)
(* Not modelled: the identity fields email / displayName / photoURL, the   *)
(* descriptive text of a posting (company, role, country, jd), styling.    *)
(* resumeText undefined and '' are both falsy and are both written "".     *)
(* lastInteractedAt undefined is written NoTime.                           *)
(***************************************************************************)
EXTENDS Integers, Sequences, FiniteSets, TLC

\* ---------------------------------------------------------------- bounds
MaxClock == 2
MaxHistory == 1
MaxResults == 1
MaxPending == 1
MaxOverlap == 2
MaxSessions == 2
MaxLen == 3
MaxArrays == 2

Users == {"u1", "u2"}
\* the account that signs in under Spec
Accounts == {"u1"}
Resumes == {"cv"}
HiringProbabilities == {90}
MatchScores == {80}
\* the integers a response can carry in a score field
Scores == {-1, 50, 101}
RankProbabilities == {50, 70, 90}
\* the selections of the checklist: None, one hub, All
Selections == {<<>>, <<"FI">>, <<"FI", "SE">>}

\* Date.now() never returns 0 here; 0 stands for an undefined timestamp
NoTime == 0

\* ---------------------------------------------------------------- state
VARIABLES
    authUid,            \* App: useState authUid ("" = null)
    profile,            \* App: useState profile (NoProfile = null)
    step,               \* App: useState step
    db,                 \* storageService: the parsed localStorage mirror
    loading,            \* Dashboard: useState loading
    activeSessionId,    \* Dashboard: useState activeSessionId (NoTime = null)
    pendingSearches,    \* handleSearch calls suspended at an await
    onboardingTimers,   \* Onboarding.handleNext setTimeout callbacks
    saveTimers,         \* ProfilePage.handleSave setTimeout callbacks
    clock,              \* Date.now()
    lastCall,           \* what ran last at this instant and how it ended, if it
                        \* was markJobInteraction or a discoverJobs that threw
    selectedCountries,  \* Dashboard: useState selectedCountries
    config,             \* Dashboard: useState config ("null" or "set")
    pendingAnalyses,    \* fetchConfig calls of the mounted Dashboard at their await
    countries,          \* ProfilePage: useState countries
    analyzer,           \* analyzeResume in this page load: "fails" = it rejects
                        \* before the user's next event, "answers" = it stays
                        \* pending until it resolves or rejects
    arrays              \* number of arrays the Dashboard has created

vars == <<authUid, profile, step, db, loading, activeSessionId,
          pendingSearches, onboardingTimers, saveTimers, clock, lastCall,
          selectedCountries, config, pendingAnalyses, countries, analyzer, arrays>>

\* an empty array whose identity is not followed; also written for undefined
NoList == [ref |-> 0, items |-> <<>>]

NoProfile == [uid |-> "", resumeText |-> "", suggestedCountries |-> NoList, history |-> <<>>]

IsProfile(p) == p.uid # ""

\* ---------------------------------------------------------------- helpers
RemoveAt(s, i) == [k \in 1..(Len(s) - 1) |-> IF k < i THEN s[k] ELSE s[k + 1]]

SeqMap(F(_), s) == [k \in 1..Len(s) |-> F(s[k])]

SeqsUpTo(S, n) == UNION {[1..k -> S] : k \in 0..n}

\* every handler of App returns undefined
NoCall == [op |-> "", ret |-> "void"]

\* ---------------------------------------------------------------- storage
\* storage.getProfile: db[uid] || null
getProfile(store, uid) == store[uid]

\* JSON.parse(JSON.stringify(list)): the same items in a new array
Plain(list) == [ref |-> 0, items |-> list.items]

\* JSON.parse(JSON.stringify(p)): the same values, no object of p shared
JsonCopy(p) ==
    [p EXCEPT !.suggestedCountries = Plain(p.suggestedCountries),
              !.history = SeqMap(LAMBDA session :
                                    [session EXCEPT !.countries = Plain(session.countries)],
                                 p.history)]

\* a save that writes a map holding only this profile
saveProfile_OnlyThis(store, p) ==
    [u \in DOMAIN store |-> IF u = p.uid THEN JsonCopy(p) ELSE NoProfile]

\* storage.saveProfile: db[profile.uid] = profile; the whole map is rewritten
saveProfile(store, p) == [store EXCEPT ![p.uid] = JsonCopy(p)]

\* a [profile] effect that deletes the stored profile of the signed-in user
\* when the profile is cleared
ProfileEffect_DeleteOnLogout(store, p) ==
    IF IsProfile(p) THEN saveProfile(store, p)
    ELSE [u \in DOMAIN store |-> IF u = authUid THEN NoProfile ELSE store[u]]

\* App: useEffect(() => { if (profile) storage.saveProfile(profile) }, [profile])
ProfileEffect(store, p) == IF IsProfile(p) THEN saveProfile(store, p) ELSE store

\* ---------------------------------------------------------------- ranking
\* the comparator with the clicked records first
compare_ClickedFirst(a, b) ==
    IF a.clicked = b.clicked
    THEN b.hiringProbability - a.hiringProbability
    ELSE IF a.clicked THEN -1 ELSE 1

\* the comparator with the probabilities ascending
compare_Ascending(a, b) ==
    IF a.clicked = b.clicked
    THEN a.hiringProbability - b.hiringProbability
    ELSE IF a.clicked THEN 1 ELSE -1

\* the comparator of sortedJobs
compare(a, b) ==
    IF a.clicked = b.clicked
    THEN b.hiringProbability - a.hiringProbability
    ELSE IF a.clicked THEN 1 ELSE -1

\* an unstable insertion: an element is placed before the elements it ties with
Insert_BeforeTies(x, s) ==
    LET before == {i \in DOMAIN s : \A k \in 1..i : compare(s[k], x) < 0}
        n == Cardinality(before)
    IN  SubSeq(s, 1, n) \o <<x>> \o SubSeq(s, n + 1, Len(s))

\* an insertion that overwrites the element it is placed in front of
Insert_Overwrite(x, s) ==
    LET before == {i \in DOMAIN s : \A k \in 1..i : compare(s[k], x) <= 0}
        n == Cardinality(before)
    IN  SubSeq(s, 1, n) \o <<x>> \o SubSeq(s, n + 2, Len(s))

\* Array.prototype.sort is stable: an element is placed after every element
\* that does not compare greater than it
Insert(x, s) ==
    LET before == {i \in DOMAIN s : \A k \in 1..i : compare(s[k], x) <= 0}
        n == Cardinality(before)
    IN  SubSeq(s, 1, n) \o <<x>> \o SubSeq(s, n + 1, Len(s))

RECURSIVE SortFrom(_, _)
SortFrom(s, acc) ==
    IF s = <<>> THEN acc ELSE SortFrom(Tail(s), Insert(Head(s), acc))

sort(s) == SortFrom(s, <<>>)

\* Dashboard: profile.history.find(s => s.id === activeSessionId) || profile.history[0]
HasActiveSession == profile.history # <<>>

activeSession ==
    LET h == profile.history
        hits == {i \in DOMAIN h : h[i].id = activeSessionId}
    IN  IF hits # {} THEN h[CHOOSE i \in hits : \A k \in hits : i <= k]
        ELSE h[1]

\* Dashboard: useMemo over [...activeSession.results].sort(...)
sortedJobs == IF HasActiveSession THEN sort(activeSession.results) ELSE <<>>

\* ---------------------------------------------------------------- rendering
\* App renders <Dashboard> only when step === 'dashboard' && profile
DashboardMounted(p, st) == st = "dashboard" /\ IsProfile(p)

\* useState initialiser of activeSessionId: profile.history[0]?.id || null
InitialSessionId(p) == IF p.history = <<>> THEN NoTime ELSE p.history[1].id

\* Dashboard local state after a render with profile p and step st:
\* kept when the component stays mounted, initialised when it mounts
DashLoading(p, st, ld) ==
    IF DashboardMounted(p, st) /\ DashboardMounted(profile, step) THEN ld ELSE FALSE

DashSession(p, st, sid) ==
    IF ~DashboardMounted(p, st) THEN NoTime
    ELSE IF DashboardMounted(profile, step) THEN sid
    ELSE InitialSessionId(p)

\* a suspended handleSearch whose Dashboard instance was unmounted keeps
\* running, but its setLoading / setActiveSessionId calls reach nothing
SearchesAfter(p, st, ss) ==
    IF DashboardMounted(p, st) /\ DashboardMounted(profile, step) THEN ss
    ELSE SeqMap(LAMBDA s : [s EXCEPT !.live = FALSE], ss)

\* setProfile puts a new object in the state: the handlers suspended with
\* the old one no longer hold the current profile object
Detached(ss) == SeqMap(LAMBDA s : [s EXCEPT !.cur = FALSE], ss)

DetachedTimers(ts) == {[t EXCEPT !.cur = FALSE] : t \in ts}

\* Dashboard: useState(profile.suggestedCountries || []) when it mounts
SelectionAfter(p, st) ==
    IF ~DashboardMounted(p, st) THEN NoList
    ELSE IF DashboardMounted(profile, step) THEN selectedCountries
    ELSE p.suggestedCountries

\* Dashboard: useState config, null when it mounts
ConfigAfter(p, st) ==
    IF DashboardMounted(p, st) /\ DashboardMounted(profile, step) THEN config ELSE "null"

\* Dashboard: useEffect on [profile.resumeText]: if (!config) fetchConfig(),
\* which returns at once without a resumeText
Fetches(p, st) ==
    /\ DashboardMounted(p, st)
    /\ p.resumeText # ""
    /\ ConfigAfter(p, st) = "null"
    /\ ~DashboardMounted(profile, step) \/ p.resumeText # profile.resumeText

\* ProfilePage: useState(profile.suggestedCountries || []) when it mounts
PageCountriesAfter(p, st) ==
    IF ~(st = "profile" /\ IsProfile(p)) THEN NoList
    ELSE IF step = "profile" /\ IsProfile(profile) THEN countries
    ELSE p.suggestedCountries

\* the local state of Dashboard and ProfilePage after a render of App with
\* profile p and step st and the effects of that render.  fetchConfig sets
\* loading; when analyzeResume rejects at once its finally clears it again.
\* The [selectedCountries] effect of a mounting Dashboard assigns the array
\* it has just read from the profile.
LocalState(p, st, ld, sid, ss) ==
    /\ loading' = IF Fetches(p, st) THEN analyzer = "answers" ELSE DashLoading(p, st, ld)
    /\ activeSessionId' = DashSession(p, st, sid)
    /\ pendingSearches' = SearchesAfter(p, st, ss)
    /\ selectedCountries' = SelectionAfter(p, st)
    /\ config' = ConfigAfter(p, st)
    /\ pendingAnalyses' =
          LET kept == IF DashboardMounted(p, st) /\ DashboardMounted(profile, step)
                      THEN pendingAnalyses ELSE <<>>
          IN  IF Fetches(p, st) /\ analyzer = "answers"
              THEN Append(kept, [empty |-> SelectionAfter(p, st).items = <<>>])
              ELSE kept
    /\ countries' = PageCountriesAfter(p, st)

\* one render of App with the new profile and step, followed by its effects
Render(p, st, ld, sid, ss) ==
    /\ profile' = p
    /\ step' = st
    /\ db' = ProfileEffect(db, p)
    /\ LocalState(p, st, ld, sid, ss)

\* ---------------------------------------------------------------- App
\* an [authUid] effect that opens the Dashboard for every stored profile
StepFor_Dashboard(saved) == "dashboard"

\* App: useEffect on [authUid]: the step chosen for a stored profile
StepFor(saved) == IF saved.resumeText # "" THEN "dashboard" ELSE "onboarding"

\* App.handleGoogleLogin followed by the [authUid] effect, which reloads the
\* stored profile, and the [profile] effect, which saves it
handleGoogleLogin(uid) ==
    /\ step = "auth"
    /\ LET existing == getProfile(db, uid)
           newProfile == [uid |-> uid, resumeText |-> "", suggestedCountries |-> NoList,
                          history |-> <<>>]
           stored == IF IsProfile(existing) THEN db ELSE saveProfile(db, newProfile)
           savedProfile == getProfile(stored, uid)
           shown == IF IsProfile(existing) THEN existing ELSE newProfile
           p == IF authUid # uid THEN savedProfile ELSE shown
           st == IF authUid # uid THEN StepFor(savedProfile) ELSE step
       IN  /\ authUid' = uid
           /\ profile' = p
           /\ step' = st
           /\ db' = ProfileEffect(ProfileEffect(stored, shown), p)
           /\ LocalState(p, st, loading, activeSessionId, Detached(pendingSearches))
    /\ onboardingTimers' = DetachedTimers(onboardingTimers)
    /\ lastCall' = NoCall
    /\ UNCHANGED <<saveTimers, clock, analyzer, arrays>>

\* App.handleLogout (header button, shown whenever profile is set)
handleLogout ==
    /\ IsProfile(profile)
    /\ authUid' = ""
    /\ Render(NoProfile, "auth", loading, activeSessionId, Detached(pendingSearches))
    /\ onboardingTimers' = DetachedTimers(onboardingTimers)
    /\ lastCall' = NoCall
    /\ UNCHANGED <<saveTimers, clock, analyzer, arrays>>

\* header: the profile button, setStep('profile')
GoProfile ==
    /\ IsProfile(profile)
    /\ step # "profile"
    /\ Render(profile, "profile", loading, activeSessionId, pendingSearches)
    /\ lastCall' = NoCall
    /\ UNCHANGED <<authUid, onboardingTimers, saveTimers, clock, analyzer, arrays>>

\* header logo: profile?.resumeText && setStep('dashboard');
\* ProfilePage onBack: setStep('dashboard')
GoDashboard ==
    /\ step # "dashboard"
    /\ \/ IsProfile(profile) /\ profile.resumeText # ""
       \/ step = "profile" /\ IsProfile(profile)
    /\ Render(profile, "dashboard", loading, activeSessionId, pendingSearches)
    /\ lastCall' = NoCall
    /\ UNCHANGED <<authUid, onboardingTimers, saveTimers, clock, analyzer, arrays>>

\* Dashboard onBack: setStep('onboarding')
GoOnboarding ==
    /\ DashboardMounted(profile, step)
    /\ Render(profile, "onboarding", loading, activeSessionId, pendingSearches)
    /\ lastCall' = NoCall
    /\ UNCHANGED <<authUid, onboardingTimers, saveTimers, clock, analyzer, arrays>>

\* ---------------------------------------------------------------- Onboarding
\* Onboarding.handleNext: the timer callback keeps the onComplete of this
\* render, that is handleOnboardingComplete closed over the current profile
handleNext(text) ==
    /\ step = "onboarding"
    /\ text # ""
    /\ onboardingTimers' =
          onboardingTimers \cup {[prof |-> profile, cur |-> TRUE, text |-> text]}
    /\ lastCall' = NoCall
    /\ UNCHANGED <<authUid, profile, step, db, loading, activeSessionId,
                   pendingSearches, saveTimers, clock,
                   selectedCountries, config, pendingAnalyses, countries, analyzer, arrays>>

\* App.handleOnboardingComplete, run by the timer 800 ms later
handleOnboardingComplete(t) ==
    /\ t \in onboardingTimers
    /\ IF ~IsProfile(t.prof)
       THEN /\ onboardingTimers' = onboardingTimers \ {t}
            /\ UNCHANGED <<profile, step, db, loading, activeSessionId, pendingSearches,
                           selectedCountries, config, pendingAnalyses, countries>>
       ELSE /\ onboardingTimers' = DetachedTimers(onboardingTimers \ {t})
            /\ Render([t.prof EXCEPT !.resumeText = t.text], "dashboard",
                      loading, activeSessionId, Detached(pendingSearches))
    /\ lastCall' = NoCall
    /\ UNCHANGED <<authUid, saveTimers, clock, analyzer, arrays>>

\* ---------------------------------------------------------------- ProfilePage
\* ProfilePage.handleSave: the timer callback keeps the profile prop of this
\* render; the Save button is never disabled
handleSave(resumeUrl) ==
    /\ step = "profile"
    /\ IsProfile(profile)
    /\ saveTimers' = saveTimers \cup {[prof |-> profile, resumeUrl |-> resumeUrl,
                                       countries |-> countries]}
    /\ lastCall' = NoCall
    /\ UNCHANGED <<authUid, profile, step, db, loading, activeSessionId,
                   pendingSearches, onboardingTimers, clock,
                   selectedCountries, config, pendingAnalyses, countries, analyzer, arrays>>

\* the timer callback: onUpdate({...profile, resumeText: resumeUrl,
\* suggestedCountries: countries, ...}), which is setProfile(updated);
\* setStep('dashboard')
onUpdate(t) ==
    /\ t \in saveTimers
    /\ saveTimers' = saveTimers \ {t}
    /\ Render([t.prof EXCEPT !.resumeText = t.resumeUrl,
                             !.suggestedCountries = t.countries],
              "dashboard", loading, activeSessionId, Detached(pendingSearches))
    /\ onboardingTimers' = DetachedTimers(onboardingTimers)
    /\ lastCall' = NoCall
    /\ UNCHANGED <<authUid, clock, analyzer, arrays>>

\* ---------------------------------------------------------------- discovery
\* what the discovery collaborator returns for one posting
RawJobs == [matchScore : MatchScores, hiringProbability : HiringProbabilities, urlOk : BOOLEAN]

\* what the response schema admits for one posting: both scores are
\* Type.INTEGER, with no minimum and no maximum
ReturnedJobs == [matchScore : Scores, hiringProbability : Scores, urlOk : BOOLEAN]

\* geminiService.discoverJobs: results.map((r, i) => ({...r, id, clicked, timestamp}))
Stamp(raw, now) ==
    [i \in 1..Len(raw) |->
        [id |-> <<now, i>>,
         matchScore |-> raw[i].matchScore,
         hiringProbability |-> raw[i].hiringProbability,
         urlOk |-> raw[i].urlOk,
         clicked |-> FALSE,
         lastInteractedAt |-> NoTime,
         timestamp |-> now,
         isValidated |-> FALSE]]

\* geminiService.validateJobUrl
validateJobUrl(job) == job.urlOk

Validated_KeepAll(results) ==
    SeqMap(LAMBDA j : [j EXCEPT !.isValidated = TRUE], results)

\* Dashboard.handleSearch: the loop that keeps the postings whose url validates
Validated(results) ==
    SeqMap(LAMBDA j : [j EXCEPT !.isValidated = TRUE],
           SelectSeq(results, validateJobUrl))

handleSearch_NoResumeCheck ==
    /\ DashboardMounted(profile, step)
    /\ ~loading
    /\ loading' = TRUE
    /\ pendingSearches' =
          Append(pendingSearches,
                 [prof |-> profile, cur |-> TRUE, countries |-> selectedCountries,
                  live |-> TRUE])
    /\ lastCall' = NoCall
    /\ UNCHANGED <<authUid, profile, step, db, activeSessionId,
                   onboardingTimers, saveTimers, clock,
                   selectedCountries, config, pendingAnalyses, countries, analyzer, arrays>>

\* Dashboard.handleSearch up to the first await; it keeps the profile prop,
\* the selectedCountries and the onSearchSave (App.updateHistory) of the
\* render it was called in
handleSearch ==
    /\ DashboardMounted(profile, step)
    /\ ~loading
    /\ profile.resumeText # ""
    /\ loading' = TRUE
    /\ pendingSearches' =
          Append(pendingSearches,
                 [prof |-> profile, cur |-> TRUE, countries |-> selectedCountries,
                  live |-> TRUE])
    /\ lastCall' = NoCall
    /\ UNCHANGED <<authUid, profile, step, db, activeSessionId,
                   onboardingTimers, saveTimers, clock,
                   selectedCountries, config, pendingAnalyses, countries, analyzer, arrays>>

\* App.updateHistory as captured by the search: {...profile, history: [session, ...profile.history]}
updateHistory(prof, session) ==
    [prof EXCEPT !.history = <<session>> \o prof.history]

\* what the last discovery call of a search did when it threw
Rejected == [op |-> "discoverJobs", ret |-> "rejected"]

discoverJobsFails_EmptySession(i) ==
    /\ i \in DOMAIN pendingSearches
    /\ LET s == pendingSearches[i]
           session == [id |-> clock, timestamp |-> clock, countries |-> s.countries,
                       results |-> <<>>]
       IN  Render(updateHistory(s.prof, session), step,
                  IF s.live THEN FALSE ELSE loading, activeSessionId,
                  Detached(RemoveAt(pendingSearches, i)))
    /\ lastCall' = Rejected
    /\ UNCHANGED <<authUid, onboardingTimers, saveTimers, clock, analyzer, arrays>>

\* discoverJobs rejects: catch, then finally { setLoading(false) }
discoverJobsFails(i) ==
    /\ i \in DOMAIN pendingSearches
    /\ loading' = IF pendingSearches[i].live THEN FALSE ELSE loading
    /\ pendingSearches' = RemoveAt(pendingSearches, i)
    /\ lastCall' = Rejected
    /\ UNCHANGED <<authUid, profile, step, db, activeSessionId,
                   onboardingTimers, saveTimers, clock,
                   selectedCountries, config, pendingAnalyses, countries, analyzer, arrays>>

\* the rest of Dashboard.handleSearch: discoverJobs resolved with raw at
\* time discoveredAt, the urls were validated, the session is built and
\* onSearchSave runs the captured App.updateHistory, then setActiveSessionId
\* and setLoading.  Nothing else reads the results between the awaits.
SearchCompletes(i, raw, discoveredAt) ==
    /\ i \in DOMAIN pendingSearches
    /\ discoveredAt \in 1..clock
    /\ LET s == pendingSearches[i]
           session == [id |-> clock, timestamp |-> clock, countries |-> s.countries,
                       results |-> Validated(Stamp(raw, discoveredAt))]
           rest == RemoveAt(pendingSearches, i)
           ld == IF s.live THEN FALSE ELSE loading
           sid == IF s.live THEN session.id ELSE activeSessionId
       IN  IF ~IsProfile(s.prof)
           THEN /\ loading' = ld
                /\ activeSessionId' = sid
                /\ pendingSearches' = rest
                /\ UNCHANGED <<profile, step, db, onboardingTimers,
                               selectedCountries, config, pendingAnalyses, countries>>
           ELSE /\ Render(updateHistory(s.prof, session), step, ld, sid, Detached(rest))
                /\ onboardingTimers' = DetachedTimers(onboardingTimers)
    /\ lastCall' = NoCall
    /\ UNCHANGED <<authUid, saveTimers, clock, analyzer, arrays>>

\* ---------------------------------------------------------------- selection
\* Dashboard: useEffect on [selectedCountries, selectedTitles]:
\* profile.suggestedCountries = selectedCountries, an assignment to the
\* profile object of the current render
Assigned(p, list) == [p EXCEPT !.suggestedCountries = list]

\* the same object as seen by the handlers suspended with it
AssignedSearches(ss, list) ==
    SeqMap(LAMBDA s : IF s.cur THEN [s EXCEPT !.prof = Assigned(s.prof, list)] ELSE s, ss)

AssignedTimers(ts, list) ==
    {IF t.cur THEN [t EXCEPT !.prof = Assigned(t.prof, list)] ELSE t : t \in ts}

\* setSelectedCountries(a new array), the render and the effect that follow.
\* There is no setProfile, so the [profile] effect of App does not run.
\* A save timer spreads the profile when it fires and then overrides
\* suggestedCountries, so the assignment does not show in its result.
setSelectedCountries(items) ==
    LET list == [ref |-> arrays + 1, items |-> items]
    IN  /\ arrays < MaxArrays
        /\ arrays' = arrays + 1
        /\ selectedCountries' = list
        /\ profile' = Assigned(profile, list)
        /\ pendingSearches' = AssignedSearches(pendingSearches, list)
        /\ onboardingTimers' = AssignedTimers(onboardingTimers, list)

\* fetchConfig after analyzeResume resolved: setConfig(analysis), then
\* if (selectedCountries.length === 0) setSelectedCountries(analysis.countries.slice(0, 3))
\* with the selectedCountries of the render that started it, then finally
AnalysisCompletes(i, items) ==
    /\ i \in DOMAIN pendingAnalyses
    /\ config' = "set"
    /\ loading' = FALSE
    /\ pendingAnalyses' = RemoveAt(pendingAnalyses, i)
    /\ IF pendingAnalyses[i].empty
       THEN setSelectedCountries(items)
       ELSE UNCHANGED <<arrays, selectedCountries, profile, pendingSearches, onboardingTimers>>
    /\ lastCall' = NoCall
    /\ UNCHANGED <<authUid, step, db, activeSessionId, saveTimers, clock, countries, analyzer>>

\* analyzeResume rejects: catch, then finally { setLoading(false) }
AnalysisFails(i) ==
    /\ i \in DOMAIN pendingAnalyses
    /\ loading' = FALSE
    /\ pendingAnalyses' = RemoveAt(pendingAnalyses, i)
    /\ lastCall' = NoCall
    /\ UNCHANGED <<authUid, profile, step, db, activeSessionId, pendingSearches,
                   onboardingTimers, saveTimers, clock,
                   selectedCountries, config, countries, analyzer, arrays>>

\* ChecklistSection (rendered once config is set): a checkbox, All, None or
\* the add button calls onSetSelected with a new array
EditSelection(items) ==
    /\ DashboardMounted(profile, step)
    /\ config = "set"
    /\ setSelectedCountries(items)
    /\ lastCall' = NoCall
    /\ UNCHANGED <<authUid, step, db, loading, activeSessionId, saveTimers, clock,
                   config, pendingAnalyses, countries, analyzer>>

\* ---------------------------------------------------------------- interaction
\* the mapping that also gives the session the time of the visit
MarkedHistory_Restamped(history, sessionId, jobId, now) ==
    SeqMap(LAMBDA session :
              IF session.id = sessionId
              THEN [session EXCEPT !.timestamp = now,
                                   !.results =
                      SeqMap(LAMBDA job :
                                IF job.id = jobId
                                THEN [job EXCEPT !.clicked = TRUE,
                                                 !.lastInteractedAt = now]
                                ELSE job,
                             session.results)]
              ELSE session,
           history)

\* the mapping that leaves a record that is already clicked as it is
MarkedHistory_OnlyFirst(history, sessionId, jobId, now) ==
    SeqMap(LAMBDA session :
              IF session.id = sessionId
              THEN [session EXCEPT !.results =
                      SeqMap(LAMBDA job :
                                IF job.id = jobId /\ ~job.clicked
                                THEN [job EXCEPT !.clicked = TRUE,
                                                 !.lastInteractedAt = now]
                                ELSE job,
                             session.results)]
              ELSE session,
           history)

\* the mapping that marks every record of the session
MarkedHistory_WholeSession(history, sessionId, jobId, now) ==
    SeqMap(LAMBDA session :
              IF session.id = sessionId
              THEN [session EXCEPT !.results =
                      SeqMap(LAMBDA job :
                                [job EXCEPT !.clicked = TRUE,
                                            !.lastInteractedAt = now],
                             session.results)]
              ELSE session,
           history)

\* the mapping that sets the flag without the timestamp
MarkedHistory_NoTimestamp(history, sessionId, jobId, now) ==
    SeqMap(LAMBDA session :
              IF session.id = sessionId
              THEN [session EXCEPT !.results =
                      SeqMap(LAMBDA job :
                                IF job.id = jobId
                                THEN [job EXCEPT !.clicked = TRUE]
                                ELSE job,
                             session.results)]
              ELSE session,
           history)

\* the mapping that matches the result id in every session
MarkedHistory_AnySession(history, sessionId, jobId, now) ==
    SeqMap(LAMBDA session :
              [session EXCEPT !.results =
                  SeqMap(LAMBDA job :
                            IF job.id = jobId
                            THEN [job EXCEPT !.clicked = TRUE,
                                             !.lastInteractedAt = now]
                            ELSE job,
                         session.results)],
           history)

\* the mapping that stores the results of the session in display order
MarkedHistory_PersistOrder(history, sessionId, jobId, now) ==
    SeqMap(LAMBDA session :
              IF session.id = sessionId
              THEN [session EXCEPT !.results =
                      sort(SeqMap(LAMBDA job :
                                     IF job.id = jobId
                                     THEN [job EXCEPT !.clicked = TRUE,
                                                      !.lastInteractedAt = now]
                                     ELSE job,
                                  session.results))]
              ELSE session,
           history)

\* the history computed by App.markJobInteraction
MarkedHistory(history, sessionId, jobId, now) ==
    SeqMap(LAMBDA session :
              IF session.id = sessionId
              THEN [session EXCEPT !.results =
                      SeqMap(LAMBDA job :
                                IF job.id = jobId
                                THEN [job EXCEPT !.clicked = TRUE,
                                                 !.lastInteractedAt = now]
                                ELSE job,
                             session.results)]
              ELSE session,
           history)

SessionIds == 1..MaxClock

JobIds == (1..MaxClock) \X (1..MaxResults)

\* App.markJobInteraction, called by Dashboard.handleVisit / copyUrl with the
\* handler of the current render.  The buttons of a listed posting pass the
\* ids on screen; the buttons of the detail modal pass the ids kept in
\* selectedJob when the modal was opened, and the modal stays open while a
\* search is loading and while the profile is replaced under it.
markJobInteraction(sessionId, jobId) ==
    /\ DashboardMounted(profile, step)
    /\ Render([profile EXCEPT
                 !.history = MarkedHistory(profile.history, sessionId, jobId, clock)],
              step, loading, activeSessionId, Detached(pendingSearches))
    /\ onboardingTimers' = DetachedTimers(onboardingTimers)
    /\ lastCall' = [op |-> "markJobInteraction", ret |-> "void"]
    /\ UNCHANGED <<authUid, saveTimers, clock, analyzer, arrays>>

\* ---------------------------------------------------------------- time
Tick ==
    /\ clock < MaxClock
    /\ clock' = clock + 1
    /\ lastCall' = NoCall
    /\ UNCHANGED <<authUid, profile, step, db, loading, activeSessionId,
                   pendingSearches, onboardingTimers, saveTimers,
                   selectedCountries, config, pendingAnalyses, countries, analyzer, arrays>>

\* ---------------------------------------------------------------- Spec
Init ==
    /\ authUid = ""
    /\ profile = NoProfile
    /\ step = "auth"
    /\ db = [u \in Users |-> NoProfile]
    /\ loading = FALSE
    /\ activeSessionId = NoTime
    /\ pendingSearches = <<>>
    /\ onboardingTimers = {}
    /\ saveTimers = {}
    /\ clock = 1
    /\ lastCall = NoCall
    /\ selectedCountries = NoList
    /\ config = "null"
    /\ pendingAnalyses = <<>>
    /\ countries = NoList
    /\ analyzer = "fails"
    /\ arrays = 0

\* asynchronous continuations not yet run
Pending == Len(pendingSearches) + Cardinality(onboardingTimers) + Cardinality(saveTimers)

Next ==
    \/ \E uid \in Accounts : handleGoogleLogin(uid)
    \/ handleLogout
    \/ GoProfile
    \/ GoDashboard
    \/ GoOnboarding
    \/ \E text \in Resumes : Pending < MaxPending /\ handleNext(text)
    \/ \E t \in onboardingTimers : handleOnboardingComplete(t)
    \/ \E resumeUrl \in Resumes \cup {""} : Pending < MaxPending /\ handleSave(resumeUrl)
    \/ \E t \in saveTimers : onUpdate(t)
    \/ Pending < MaxPending /\ Len(profile.history) < MaxHistory /\ handleSearch
    \/ \E i \in DOMAIN pendingSearches : discoverJobsFails(i)
    \/ \E i \in DOMAIN pendingSearches, raw \in SeqsUpTo(RawJobs, MaxResults), at \in 1..MaxClock :
          SearchCompletes(i, raw, at)
    \/ \E sessionId \in SessionIds, jobId \in JobIds : markJobInteraction(sessionId, jobId)
    \/ Tick

Spec == Init /\ [][Next]_vars

\* ---------------------------------------------------------------- OverlapSpec
\* A signed-in user on the Dashboard after onboarding, with a profile save
\* and searches allowed to be in flight at the same time.
OverlapInit ==
    /\ authUid = "u1"
    /\ profile = [uid |-> "u1", resumeText |-> "cv", suggestedCountries |-> NoList,
                  history |-> <<>>]
    /\ step = "dashboard"
    /\ db = [u \in Users |-> IF u = "u1" THEN profile ELSE NoProfile]
    /\ loading = FALSE
    /\ activeSessionId = NoTime
    /\ pendingSearches = <<>>
    /\ onboardingTimers = {}
    /\ saveTimers = {}
    /\ clock = 1
    /\ lastCall = NoCall
    /\ selectedCountries = NoList
    /\ config = "null"
    /\ pendingAnalyses = <<>>
    /\ countries = NoList
    /\ analyzer = "fails"
    /\ arrays = 0

OverlapNext ==
    \/ GoProfile
    \/ GoDashboard
    \/ \E resumeUrl \in Resumes : Pending < MaxOverlap /\ handleSave(resumeUrl)
    \/ \E t \in saveTimers : onUpdate(t)
    \/ Pending < MaxOverlap /\ Len(profile.history) < MaxHistory /\ handleSearch
    \/ \E i \in DOMAIN pendingSearches, raw \in SeqsUpTo(RawJobs, MaxResults), at \in 1..MaxClock :
          SearchCompletes(i, raw, at)
    \/ \E sessionId \in SessionIds, jobId \in JobIds : markJobInteraction(sessionId, jobId)
    \/ Tick

OverlapSpec == OverlapInit /\ [][OverlapNext]_vars

\* ---------------------------------------------------------------- DashboardSpec
\* A signed-in user who stays on the Dashboard: searches, one at a time as
\* the disabled search button allows, and interactions.  A search finishes
\* within the clock instant in which its discovery call returned.
DashboardNext ==
    \/ Len(profile.history) < MaxSessions /\ handleSearch
    \/ \E i \in DOMAIN pendingSearches : discoverJobsFails(i)
    \/ \E i \in DOMAIN pendingSearches, raw \in SeqsUpTo(RawJobs, MaxResults) :
          SearchCompletes(i, raw, clock)
    \/ \E sessionId \in SessionIds, jobId \in JobIds : markJobInteraction(sessionId, jobId)
    \/ Tick

DashboardSpec == OverlapInit /\ [][DashboardNext]_vars

\* ---------------------------------------------------------------- ResumeSpec
\* A user who has just signed in for the first time: onboarding, the profile
\* page, where the resume can be replaced or emptied, and searches.
ResumeInit ==
    /\ authUid = "u1"
    /\ profile = [uid |-> "u1", resumeText |-> "", suggestedCountries |-> NoList,
                  history |-> <<>>]
    /\ step = "onboarding"
    /\ db = [u \in Users |-> IF u = "u1" THEN profile ELSE NoProfile]
    /\ loading = FALSE
    /\ activeSessionId = NoTime
    /\ pendingSearches = <<>>
    /\ onboardingTimers = {}
    /\ saveTimers = {}
    /\ clock = 1
    /\ lastCall = NoCall
    /\ selectedCountries = NoList
    /\ config = "null"
    /\ pendingAnalyses = <<>>
    /\ countries = NoList
    /\ analyzer = "fails"
    /\ arrays = 0

ResumeNext ==
    \/ GoProfile
    \/ GoDashboard
    \/ GoOnboarding
    \/ \E text \in Resumes : Pending < MaxPending /\ handleNext(text)
    \/ \E t \in onboardingTimers : handleOnboardingComplete(t)
    \/ \E resumeUrl \in Resumes \cup {""} : Pending < MaxPending /\ handleSave(resumeUrl)
    \/ \E t \in saveTimers : onUpdate(t)
    \/ Pending < MaxPending /\ Len(profile.history) < MaxHistory /\ handleSearch
    \/ \E i \in DOMAIN pendingSearches : discoverJobsFails(i)
    \/ \E i \in DOMAIN pendingSearches :
          SearchCompletes(i, <<[matchScore |-> 80, hiringProbability |-> 90, urlOk |-> TRUE]>>, clock)
    \/ Tick

ResumeSpec == ResumeInit /\ [][ResumeNext]_vars

\* ---------------------------------------------------------------- WaitingSpec
\* DashboardSpec with the progress the runtime guarantees: time passes.  A
\* search is suspended at `await discoverJobs(...)`, which is given no
\* timeout and no abort signal, so it continues only when the collaborator
\* settles the call; nothing obliges the collaborator to do so, and nothing
\* obliges the user to click.
WaitingSpec == OverlapInit /\ [][DashboardNext]_vars /\ WF_vars(Tick)

\* ---------------------------------------------------------------- DiscoverySpec
\* A signed-in user who stays on the Dashboard and searches; the discovery
\* collaborator fails or returns any postings its response schema admits.
DiscoveryNext ==
    \/ Len(profile.history) < MaxHistory /\ handleSearch
    \/ \E i \in DOMAIN pendingSearches : discoverJobsFails(i)
    \/ \E i \in DOMAIN pendingSearches, raw \in SeqsUpTo(ReturnedJobs, MaxResults),
          at \in 1..MaxClock : at <= clock /\ SearchCompletes(i, raw, at)
    \/ \E sessionId \in SessionIds, jobId \in JobIds : markJobInteraction(sessionId, jobId)
    \/ Tick

DiscoverySpec == OverlapInit /\ [][DiscoveryNext]_vars

\* ---------------------------------------------------------------- RankSpec
\* The Dashboard showing one stored session whose results are any list the
\* discovery collaborator can have returned, some of them already visited.
RankJob(k, hp, c) ==
    [id |-> <<1, k>>,
     matchScore |-> 80,
     hiringProbability |-> hp,
     urlOk |-> TRUE,
     clicked |-> c,
     lastInteractedAt |-> IF c THEN 1 ELSE NoTime,
     timestamp |-> 1,
     isValidated |-> TRUE]

RankInputs ==
    UNION {{[k \in 1..n |-> RankJob(k, hp[k], c[k])] :
              hp \in [1..n -> RankProbabilities], c \in [1..n -> BOOLEAN]} :
           n \in 0..MaxLen}

RankInit ==
    /\ authUid = "u1"
    /\ \E rs \in RankInputs :
          profile = [uid |-> "u1", resumeText |-> "cv", suggestedCountries |-> NoList,
                     history |-> <<[id |-> 1, timestamp |-> 1, countries |-> NoList,
                                    results |-> rs]>>]
    /\ step = "dashboard"
    /\ db = [u \in Users |-> IF u = "u1" THEN profile ELSE NoProfile]
    /\ loading = FALSE
    /\ activeSessionId = 1
    /\ pendingSearches = <<>>
    /\ onboardingTimers = {}
    /\ saveTimers = {}
    /\ clock = 1
    /\ lastCall = NoCall
    /\ selectedCountries = NoList
    /\ config = "null"
    /\ pendingAnalyses = <<>>
    /\ countries = NoList
    /\ analyzer = "fails"
    /\ arrays = 0

RankNext ==
    \/ \E k \in 1..MaxLen : markJobInteraction(1, <<1, k>>)
    \/ Tick

RankSpec == RankInit /\ [][RankNext]_vars

\* ---------------------------------------------------------------- InteractionSpec
\* A user whose stored history is one session, and interactions that name
\* any session id and any result id, present or not; the user can leave the
\* Dashboard, sign out and sign in again in between.
RankIds == {1} \X (1..MaxLen)

InteractionInit ==
    /\ RankInit
    /\ \A k \in DOMAIN profile.history[1].results :
          profile.history[1].results[k].hiringProbability \in HiringProbabilities

InteractionNext ==
    \/ \E sessionId \in SessionIds, jobId \in RankIds : markJobInteraction(sessionId, jobId)
    \/ GoProfile
    \/ GoDashboard
    \/ handleLogout
    \/ \E uid \in Accounts : handleGoogleLogin(uid)
    \/ Tick

InteractionSpec == InteractionInit /\ [][InteractionNext]_vars

\* ---------------------------------------------------------------- SelectionSpec
\* A user who has just finished onboarding: the Dashboard has mounted with
\* nothing selected and its resume analysis is under way.  The analysis
\* answers or fails, the user edits the selection, searches, visits
\* postings, opens the profile page, saves it and comes back.
SelectionInit ==
    /\ authUid = "u1"
    /\ profile = [uid |-> "u1", resumeText |-> "cv", suggestedCountries |-> NoList,
                  history |-> <<>>]
    /\ step = "dashboard"
    /\ db = [u \in Users |-> IF u = "u1" THEN profile ELSE NoProfile]
    /\ loading = TRUE
    /\ activeSessionId = NoTime
    /\ pendingSearches = <<>>
    /\ onboardingTimers = {}
    /\ saveTimers = {}
    /\ clock = 1
    /\ lastCall = NoCall
    /\ selectedCountries = NoList
    /\ config = "null"
    /\ pendingAnalyses = <<[empty |-> TRUE]>>
    /\ countries = NoList
    /\ analyzer = "answers"
    /\ arrays = 0

SelectionNext ==
    \/ \E i \in DOMAIN pendingAnalyses, items \in Selections : AnalysisCompletes(i, items)
    \/ \E i \in DOMAIN pendingAnalyses : AnalysisFails(i)
    \/ \E items \in Selections : EditSelection(items)
    \/ Pending < MaxPending /\ Len(profile.history) < MaxHistory /\ handleSearch
    \/ \E i \in DOMAIN pendingSearches : discoverJobsFails(i)
    \/ \E i \in DOMAIN pendingSearches, raw \in SeqsUpTo(RawJobs, MaxResults) :
          SearchCompletes(i, raw, clock)
    \/ \E sessionId \in SessionIds, jobId \in JobIds : markJobInteraction(sessionId, jobId)
    \/ GoProfile
    \/ GoDashboard
    \/ \E resumeUrl \in Resumes : Pending < MaxPending /\ handleSave(resumeUrl)
    \/ \E t \in saveTimers : onUpdate(t)
    \/ Tick

SelectionSpec == SelectionInit /\ [][SelectionNext]_vars

\* ---------------------------------------------------------------- ParametersSpec
\* The same user staying on the Dashboard: the analysis answers or fails,
\* then selection edits, searches one at a time that find one posting, and
\* visits of the posting found in the clock instant of a session id.
ParametersNext ==
    \/ \E i \in DOMAIN pendingAnalyses, items \in Selections : AnalysisCompletes(i, items)
    \/ \E i \in DOMAIN pendingAnalyses : AnalysisFails(i)
    \/ \E items \in Selections : EditSelection(items)
    \/ Len(profile.history) < MaxHistory /\ handleSearch
    \/ \E i \in DOMAIN pendingSearches : discoverJobsFails(i)
    \/ \E i \in DOMAIN pendingSearches :
          SearchCompletes(i, <<[matchScore |-> 80, hiringProbability |-> 90, urlOk |-> TRUE]>>, clock)
    \/ \E sessionId \in SessionIds : markJobInteraction(sessionId, <<sessionId, 1>>)
    \/ Tick

ParametersSpec == SelectionInit /\ [][ParametersNext]_vars

\* ---------------------------------------------------------------- StorageSpec
\* The storage service under saves of any profile of any user: a profile is
\* set for a signed-in user and the [profile] effect saves it.
StorageSessions ==
    {[id |-> 1, timestamp |-> 1, countries |-> NoList, results |-> rs] :
        rs \in {<<>>, <<RankJob(1, 90, TRUE)>>}}

StorageResumes == Resumes \cup {"", "cv2"}

StorageProfiles ==
    {[uid |-> u, resumeText |-> r, suggestedCountries |-> NoList, history |-> h] :
        u \in Users, r \in StorageResumes, h \in SeqsUpTo(StorageSessions, MaxHistory)}

setProfile(p) ==
    /\ authUid' = p.uid
    /\ profile' = p
    /\ db' = ProfileEffect(db, p)
    /\ lastCall' = NoCall
    /\ UNCHANGED <<step, loading, activeSessionId, pendingSearches,
                   onboardingTimers, saveTimers, clock,
                   selectedCountries, config, pendingAnalyses, countries, analyzer, arrays>>

StorageNext == \E p \in StorageProfiles : setProfile(p)

StorageSpec == Init /\ [][StorageNext]_vars

\* ---------------------------------------------------------------- AccountSpec
\* A browser in which either user may or may not have a stored profile from
\* earlier visits; users sign in and out, go through onboarding, move
\* between the pages and visit the posting of the stored session.
AccountHistories ==
    {<<>>} \cup {<<[id |-> 1, timestamp |-> 1, countries |-> NoList,
                     results |-> <<RankJob(1, 90, c)>>]>> : c \in BOOLEAN}

AccountProfiles(u) ==
    {[uid |-> u, resumeText |-> r, suggestedCountries |-> NoList, history |-> h] :
        r \in Resumes \cup {""}, h \in AccountHistories}

AccountInit ==
    /\ authUid = ""
    /\ profile = NoProfile
    /\ step = "auth"
    /\ db \in [Users -> UNION {AccountProfiles(u) : u \in Users} \cup {NoProfile}]
    /\ \A u \in Users : IsProfile(db[u]) => db[u].uid = u
    /\ loading = FALSE
    /\ activeSessionId = NoTime
    /\ pendingSearches = <<>>
    /\ onboardingTimers = {}
    /\ saveTimers = {}
    /\ clock = 1
    /\ lastCall = NoCall
    /\ selectedCountries = NoList
    /\ config = "null"
    /\ pendingAnalyses = <<>>
    /\ countries = NoList
    /\ analyzer = "fails"
    /\ arrays = 0

AccountNext ==
    \/ \E uid \in Users : handleGoogleLogin(uid)
    \/ handleLogout
    \/ GoProfile
    \/ GoDashboard
    \/ GoOnboarding
    \/ \E text \in Resumes : Pending < MaxPending /\ handleNext(text)
    \/ \E t \in onboardingTimers : handleOnboardingComplete(t)
    \/ \E sessionId \in SessionIds : markJobInteraction(sessionId, <<1, 1>>)
    \/ Tick

AccountSpec == AccountInit /\ [][AccountNext]_vars

\* ---------------------------------------------------------------- claims
\* the position of the record with this id in the display order
Position(id) == CHOOSE k \in DOMAIN sortedJobs : sortedJobs[k].id = id

StoredResults == IF HasActiveSession THEN activeSession.results ELSE <<>>

\* C1 - recede invariant: in the display order every record that was not
\* clicked comes before every record that was clicked, whatever their
\* hiringProbability values are.
RecedeInvariant ==
    \A i, j \in DOMAIN sortedJobs :
        (~sortedJobs[i].clicked /\ sortedJobs[j].clicked) => i < j

\* a clicked record with the highest probability is stored first and is
\* displayed after an unclicked record of lower probability
RecedeWitness ==
    /\ Len(StoredResults) >= 2
    /\ StoredResults[1].clicked
    /\ \E i, j \in DOMAIN sortedJobs :
          /\ i < j
          /\ ~sortedJobs[i].clicked
          /\ sortedJobs[j].clicked
          /\ sortedJobs[j].id = StoredResults[1].id
          /\ sortedJobs[i].hiringProbability < sortedJobs[j].hiringProbability

\* C9 - within a group of records with the same clicked value the display
\* order is by hiringProbability descending; when every record is clicked
\* the whole output is descending.
ScoreOrderWithinGroup ==
    /\ \A i \in DOMAIN sortedJobs :
          (i < Len(sortedJobs) /\ sortedJobs[i].clicked = sortedJobs[i + 1].clicked)
             => sortedJobs[i].hiringProbability >= sortedJobs[i + 1].hiringProbability
    /\ (\A i \in DOMAIN sortedJobs : sortedJobs[i].clicked)
          => \A i, j \in DOMAIN sortedJobs :
                i < j => sortedJobs[i].hiringProbability >= sortedJobs[j].hiringProbability

\* every record is clicked, the stored order is ascending and the display
\* order is not the stored order
ScoreOrderWitness ==
    /\ Len(StoredResults) >= 3
    /\ \A i \in DOMAIN StoredResults : StoredResults[i].clicked
    /\ StoredResults[1].hiringProbability < StoredResults[2].hiringProbability
    /\ StoredResults[2].hiringProbability < StoredResults[3].hiringProbability
    /\ sortedJobs[1].id = StoredResults[3].id

\* C10 - the ranking is stable: two records with equal clicked and equal
\* hiringProbability are displayed in the relative order of the stored results.
Stability ==
    \A i, j \in DOMAIN StoredResults :
        (/\ i < j
         /\ StoredResults[i].clicked = StoredResults[j].clicked
         /\ StoredResults[i].hiringProbability = StoredResults[j].hiringProbability)
           => Position(StoredResults[i].id) < Position(StoredResults[j].id)

\* two tied records are stored around a record that the ranking moves in
\* front of both
StabilityWitness ==
    /\ Len(StoredResults) >= 3
    /\ StoredResults[1].clicked = StoredResults[3].clicked
    /\ StoredResults[1].hiringProbability = StoredResults[3].hiringProbability
    /\ sortedJobs[1].id = StoredResults[2].id
    /\ sortedJobs[2].id = StoredResults[1].id
    /\ sortedJobs[3].id = StoredResults[3].id

\* how many times a record occurs in a sequence
Occurrences(r, s) == Cardinality({k \in DOMAIN s : s[k] = r})

\* C11 - the ranked output is a permutation of the session's results: the
\* same records, each as often as it is stored; no results or no active
\* session give an empty output, and a single record is returned unchanged.
RankedIsPermutation ==
    /\ Len(sortedJobs) = Len(StoredResults)
    /\ \A k \in DOMAIN StoredResults :
          Occurrences(StoredResults[k], sortedJobs)
             = Occurrences(StoredResults[k], StoredResults)
    /\ \A k \in DOMAIN sortedJobs :
          Occurrences(sortedJobs[k], StoredResults) >= 1
    /\ (~HasActiveSession \/ StoredResults = <<>>) => sortedJobs = <<>>
    /\ Len(StoredResults) = 1 => sortedJobs = StoredResults

\* the ranking moved the record stored last in front of the others
PermutationWitness ==
    /\ Len(StoredResults) >= 3
    /\ sortedJobs[1] = StoredResults[Len(StoredResults)]
    /\ sortedJobs # StoredResults

\* the ids of a results sequence, in its order
ResultIds(results) == [k \in DOMAIN results |-> results[k].id]

\* a session of the history before keeps the order of its results in the
\* history after
OrderKept(before, after) ==
    \A i \in DOMAIN before, j \in DOMAIN after :
        before[i].id = after[j].id
           => ResultIds(after[j].results) = ResultIds(before[i].results)

\* C12 - ranking is pure and no display order is persisted: no step, and so
\* no ranking and no interaction, changes the stored order of the results of
\* a session, in memory and in the store, and the display order is a
\* function of the stored results alone.
StoredOrderKept ==
    [][/\ \A after \in {profile'.history} : OrderKept(profile.history, after)
       /\ \A u \in Users : \A after \in {db'[u].history} : OrderKept(db[u].history, after)
       /\ \A results \in {StoredResults} : sortedJobs = sort(results)
      ]_vars

\* an interaction has just moved the record stored first to the end of the
\* display order, while it is still stored first
StoredOrderWitness ==
    /\ lastCall.op = "markJobInteraction"
    /\ Len(StoredResults) >= 2
    /\ StoredResults[1].lastInteractedAt = clock
    /\ clock > 1
    /\ sortedJobs[Len(sortedJobs)] = StoredResults[1]
    /\ \E k \in DOMAIN StoredResults : ~StoredResults[k].clicked

\* the sessions of a history are in the order newest first
NewestFirst(history) ==
    \A i, j \in DOMAIN history : i < j => history[i].timestamp >= history[j].timestamp

\* C13 - appending to history prepends: a search that completes for the
\* signed-in user leaves the history as the new session followed by the
\* history as it was, so that two appends S1, S2 to H give [S2, S1] and H;
\* every other profile field is unchanged and the history is newest first.
AppendPrepends ==
    [][/\ \A i \in DOMAIN pendingSearches :
             \A raw \in SeqsUpTo(RawJobs, MaxResults), at \in 1..MaxClock :
                (/\ SearchCompletes(i, raw, at)
                 /\ IsProfile(profile)
                 /\ pendingSearches[i].prof.uid = profile.uid)
                   => /\ Len(profile'.history) = Len(profile.history) + 1
                      /\ Head(profile'.history).results = Validated(Stamp(raw, at))
                      /\ Tail(profile'.history) = profile.history
                      /\ profile'.uid = profile.uid
                      /\ profile'.resumeText = profile.resumeText
                      /\ db'[profile.uid] = profile'
       /\ NewestFirst(profile'.history)
      ]_vars

\* the records of a history, each with the id of its session
Records(history) ==
    UNION {{[sessionId |-> history[i].id, job |-> history[i].results[k]] :
               k \in DOMAIN history[i].results} :
           i \in DOMAIN history}

\* the lookup of markJobInteraction finds a record
Found(history, sessionId, jobId) ==
    \E r \in Records(history) : r.sessionId = sessionId /\ r.job.id = jobId

\* the records an interaction at the current instant has written
MarkedNow(history) == {r \in Records(history) : r.job.lastInteractedAt = clock}

\* every record that is clicked in the history before is, if the history
\* after still holds a record with its session id and result id, clicked there
StaysClicked(before, after) ==
    \A r \in Records(before) :
        r.job.clicked =>
           LET same == {q \in Records(after) :
                           q.sessionId = r.sessionId /\ q.job.id = r.job.id}
           IN  same # {} => \E q \in same : q.job.clicked

\* C2 - once the clicked flag of a record is true it is true in every later
\* state of that user's profile, in memory and in the store.
ClickedNeverReverts ==
    [][/\ \A u \in Users : StaysClicked(db[u].history, db'[u].history)
       /\ profile'.uid = profile.uid => StaysClicked(profile.history, profile'.history)
      ]_vars

\* C3 - a session appended to a profile's history is present in the history
\* in every later state, in memory and in the store.
SessionsNeverRemoved ==
    [][/\ \A u \in Users : \A i \in DOMAIN db[u].history :
             \E k \in DOMAIN db'[u].history : db'[u].history[k].id = db[u].history[i].id
       /\ profile'.uid = profile.uid =>
             \A i \in DOMAIN profile.history :
                \E k \in DOMAIN profile'.history :
                    profile'.history[k].id = profile.history[i].id
      ]_vars

\* C4 - every mutation of a profile is applied to the result of the previous
\* one: a session append keeps the history it is prepended to, an onboarding
\* completion and a profile edit keep the whole history, and none of them
\* undoes the resume text set by another.
MutationsApplyInOrder ==
    [][/\ \A i \in DOMAIN pendingSearches :
             (/\ \E raw \in SeqsUpTo(RawJobs, MaxResults), at \in 1..MaxClock :
                    SearchCompletes(i, raw, at)
              /\ IsProfile(pendingSearches[i].prof)
              /\ pendingSearches[i].prof.uid = profile.uid)
                => /\ Tail(profile'.history) = profile.history
                   /\ profile'.resumeText = profile.resumeText
       /\ \A t \in saveTimers :
             (onUpdate(t) /\ t.prof.uid = profile.uid)
                => profile'.history = profile.history
       /\ \A t \in onboardingTimers :
             (handleOnboardingComplete(t) /\ t.prof.uid = profile.uid)
                => profile'.history = profile.history
      ]_vars

\* C5 - an interaction for an existing session id and result id at time t
\* leaves the matching record with clicked = true and lastInteractedAt = t,
\* whether or not it was clicked before, in memory and in the store.
InteractionSetsFields ==
    [][\A sessionId \in SessionIds, jobId \in JobIds \cup RankIds :
          markJobInteraction(sessionId, jobId) =>
             /\ \A r \in Records(profile'.history) :
                   (r.sessionId = sessionId /\ r.job.id = jobId)
                      => (r.job.clicked /\ r.job.lastInteractedAt = clock)
             /\ \A r \in Records(db'[profile'.uid].history) :
                   (r.sessionId = sessionId /\ r.job.id = jobId)
                      => (r.job.clicked /\ r.job.lastInteractedAt = clock)
             /\ Found(profile.history, sessionId, jobId)
                   => /\ Found(profile'.history, sessionId, jobId)
                      /\ Found(db'[profile'.uid].history, sessionId, jobId)
      ]_vars

\* an interaction at a time later than the creation of its record has just
\* run: memory and store hold the record clicked, with that time
InteractionWitness ==
    /\ lastCall.op = "markJobInteraction"
    /\ \E r \in MarkedNow(profile.history) :
          /\ r.job.clicked
          /\ r.job.timestamp < clock
          /\ r \in MarkedNow(db[profile.uid].history)

\* C6 - an interaction with a session id that is not in the history, or a
\* result id that is not in that session, signals NotFound to the caller.
MissingSignalsNotFound ==
    [][\A sessionId \in SessionIds, jobId \in JobIds :
          (/\ markJobInteraction(sessionId, jobId)
           /\ ~Found(profile.history, sessionId, jobId))
             => lastCall'.ret = "NotFound"
      ]_vars

\* C7 - an interaction with a missing session id or a missing result id
\* leaves every session, every record and every interaction field as it
\* was, in memory and in the store.
MissingLeavesUnchanged ==
    [][\A sessionId \in SessionIds, jobId \in JobIds \cup RankIds :
          (/\ markJobInteraction(sessionId, jobId)
           /\ ~Found(profile.history, sessionId, jobId))
             => /\ profile'.history = profile.history
                /\ profile'.uid = profile.uid
                /\ profile'.resumeText = profile.resumeText
                /\ \A u \in Users : db'[u].history = db[u].history
      ]_vars

\* an interaction named an id that the history does not hold, while the
\* history holds a record: the call ran and wrote no record
MissingWitness ==
    /\ lastCall.op = "markJobInteraction"
    /\ Records(profile.history) # {}
    /\ MarkedNow(profile.history) = {}

\* every record the program holds: in memory, in the store, and in the
\* profiles and results kept by suspended continuations
AllRecords ==
    Records(profile.history)
      \cup UNION {Records(db[u].history) : u \in Users}
      \cup UNION {Records(pendingSearches[i].prof.history) : i \in DOMAIN pendingSearches}
      \cup UNION {Records(t.prof.history) : t \in onboardingTimers \cup saveTimers}

\* C8 - for every result record of every session lastInteractedAt is set
\* if and only if clicked is true.
TimestampIffClicked ==
    \A r \in AllRecords : (r.job.lastInteractedAt # NoTime) <=> r.job.clicked

\* an interaction has just set both fields of a record that a search,
\* started before it, still holds as created: not clicked and without timestamp
TimestampWitness ==
    /\ lastCall.op = "markJobInteraction"
    /\ \E i \in DOMAIN pendingSearches :
          \E old \in Records(pendingSearches[i].prof.history),
             new \in MarkedNow(profile.history) :
             /\ new.sessionId = old.sessionId
             /\ new.job.id = old.job.id
             /\ ~old.job.clicked
             /\ old.job.lastInteractedAt = NoTime
             /\ new.job.clicked

\* a record without its interaction fields
Created(job) == [job EXCEPT !.clicked = FALSE, !.lastInteractedAt = NoTime]

\* a session without its results
Header(session) == [session EXCEPT !.results = <<>>]

\* C16 - an interaction changes only clicked and lastInteractedAt of the
\* record whose session id and result id match: every other record of that
\* session, every record of every other session and every other field of
\* the matching record, of the sessions and of the profile are unchanged.
InteractionFrame ==
    [][\A sessionId \in SessionIds, jobId \in JobIds \cup RankIds :
          markJobInteraction(sessionId, jobId) =>
             /\ profile'.uid = profile.uid
             /\ profile'.resumeText = profile.resumeText
             /\ Len(profile'.history) = Len(profile.history)
             /\ \A i \in DOMAIN profile.history :
                   LET a == profile.history[i]
                       b == profile'.history[i]
                   IN  /\ Header(b) = Header(a)
                       /\ Len(b.results) = Len(a.results)
                       /\ \A k \in DOMAIN a.results :
                             IF a.id = sessionId /\ a.results[k].id = jobId
                             THEN Created(b.results[k]) = Created(a.results[k])
                             ELSE b.results[k] = a.results[k]
             /\ db'[profile.uid] = profile'
             /\ \A u \in Users \ {profile.uid} : db'[u] = db[u]
      ]_vars

\* an interaction has just marked one record of a session that also holds a
\* record clicked earlier and a record never clicked
FrameWitness ==
    /\ lastCall.op = "markJobInteraction"
    /\ \E a, b, c \in DOMAIN StoredResults :
          /\ StoredResults[a].lastInteractedAt = clock
          /\ StoredResults[b].clicked
          /\ StoredResults[b].lastInteractedAt < clock
          /\ ~StoredResults[c].clicked

\* C18 - saveProfile is a whole-profile, last-write-wins overwrite keyed by
\* user id: after a save of p the store returns p for p.uid, whatever was
\* stored for that id before; saving p again changes nothing; the entries
\* of every other user id are unchanged.
SaveOverwritesByUid ==
    [][IsProfile(profile') =>
          /\ getProfile(db', profile'.uid) = profile'
          /\ saveProfile(db', profile') = db'
          /\ \A u \in Users \ {profile'.uid} : getProfile(db', u) = getProfile(db, u)
          /\ \A q \in StorageProfiles :
                q.uid = profile'.uid
                   => saveProfile(saveProfile(db, q), profile') = db'
      ]_vars

\* a save for one user has replaced a stored profile of that user that had
\* a session and a resume by one that has neither, while the other user's
\* stored profile has both
SaveWitness ==
    /\ IsProfile(profile)
    /\ profile.history = <<>>
    /\ profile.resumeText = ""
    /\ db[profile.uid] = profile
    /\ \E u \in Users \ {profile.uid} :
          /\ IsProfile(db[u])
          /\ db[u].history # <<>>
          /\ db[u].resumeText # ""

\* C19 - Loading a user id for which nothing is stored returns the
\* not-found value and changes nothing in the store; a login for that id
\* ends on the onboarding page with a fresh profile with an empty history,
\* in memory and in the store, and the other users' entries as they were.
FreshProfile(uid) ==
    [uid |-> uid, resumeText |-> "", suggestedCountries |-> NoList, history |-> <<>>]

MissingLoadsNotFound ==
    [][\A uid \in Users :
          ~IsProfile(db[uid]) =>
             /\ getProfile(db, uid) = NoProfile
             /\ handleGoogleLogin(uid) =>
                   /\ authUid' = uid
                   /\ profile' = FreshProfile(uid)
                   /\ getProfile(db', uid) = FreshProfile(uid)
                   /\ step' = "onboarding"
                   /\ \A u \in Users \ {uid} : db'[u] = db[u]
      ]_vars

\* a user without a stored profile has signed in while another user's
\* profile with a session was stored
MissingLoadWitness ==
    /\ authUid # ""
    /\ step = "onboarding"
    /\ profile = FreshProfile(authUid)
    /\ db[authUid] = profile
    /\ \E u \in Users \ {authUid} : IsProfile(db[u]) /\ db[u].history # <<>>

StoreEqualsMemory ==
    IsProfile(profile) => getProfile(db, profile.uid) = JsonCopy(profile)

\* C14 - A session keeps its id, its timestamp, its parameters and, of its
\* result records, everything but the interaction fields: after any step
\* every session of a history, the one appended in that step aside, is a
\* session of the history before the step with these values, in memory and
\* in the store.
Frozen(session) ==
    [id |-> session.id,
     timestamp |-> session.timestamp,
     countries |-> session.countries.items,
     results |-> SeqMap(Created, session.results)]

FrozenSessions(history) == {Frozen(history[k]) : k \in DOMAIN history}

Earlier(before, after) == IF Len(after) > Len(before) THEN Tail(after) ELSE after

SessionsFrozen ==
    [][/\ FrozenSessions(Earlier(profile.history, profile'.history))
             \subseteq FrozenSessions(profile.history)
       /\ \A u \in Users :
             FrozenSessions(Earlier(db[u].history, db'[u].history))
                \subseteq FrozenSessions(db[u].history)
      ]_vars

\* a session whose parameters differ from the selection now on screen, with
\* a posting visited after the session was created
SessionsFrozenWitness ==
    /\ DashboardMounted(profile, step)
    /\ \E k \in DOMAIN profile.history :
          LET session == profile.history[k]
          IN  /\ session.countries.items # <<>>
              /\ session.countries.items # selectedCountries.items
              /\ session.results # <<>>
              /\ session.results[1].lastInteractedAt > session.timestamp
              /\ db[profile.uid].history[k].countries.items = session.countries.items

\* C15 - A session's parameters are a copy: no session in memory holds the
\* array that is the Dashboard's selection or the profile's
\* suggestedCountries, so that a change made to that array would show in
\* the session.
SameArray(a, b) == a.ref # 0 /\ a.ref = b.ref

ParametersAreCopies ==
    \A k \in DOMAIN profile.history :
        /\ ~SameArray(profile.history[k].countries, selectedCountries)
        /\ ~SameArray(profile.history[k].countries, profile.suggestedCountries)

\* C21 - The sessions of a history have pairwise distinct ids.
DistinctSessionIds ==
    \A i, j \in DOMAIN profile.history :
        i # j => profile.history[i].id # profile.history[j].id

\* C22 - Every stored result has a matchScore and a hiringProbability
\* within 0..100.
ScoresInRange ==
    \A u \in Users : \A i \in DOMAIN db[u].history :
        \A k \in DOMAIN db[u].history[i].results :
            /\ db[u].history[i].results[k].matchScore \in 0..100
            /\ db[u].history[i].results[k].hiringProbability \in 0..100

EverySearchEnds == loading ~> ~loading

\* the postings of a discovery result as a session would hold them if none
\* was left out: the records discoverJobs returned, each marked validated
AsReturned(raw, at) ==
    SeqMap(LAMBDA j : [j EXCEPT !.isValidated = TRUE], Stamp(raw, at))

\* C25 - A new session stores the results as the discovery collaborator
\* returned them: the same records in the same order, none dropped and none
\* reordered.
StoredAsReturned ==
    [][\A i \in DOMAIN pendingSearches :
          \A raw \in SeqsUpTo(ReturnedJobs, MaxResults), at \in 1..MaxClock :
             SearchCompletes(i, raw, at)
                => Head(profile'.history).results = AsReturned(raw, at)
      ]_vars

RECURSIVE IsSubsequence(_, _)
\* s is t with some of its elements left out
IsSubsequence(s, t) ==
    IF s = <<>> THEN TRUE
    ELSE IF t = <<>> THEN FALSE
    ELSE IF Head(s) = Head(t) THEN IsSubsequence(Tail(s), Tail(t))
    ELSE IsSubsequence(s, Tail(t))

ProfileIsOfAuthenticatedUser == IsProfile(profile) => profile.uid = authUid

\* C27 - While no user is authenticated the app is in step 'auth' with no
\* profile in memory: after a logout it stays so until the next login.
LoggedOutUntilLogin == authUid = "" => (step = "auth" /\ ~IsProfile(profile))

\* C28 - At most one discovery search is in flight at any time.
OneSearchInFlight == Len(pendingSearches) <= 1

\* C30 - A search creates a session only from a non-empty resume: a
\* discovery call is started only while the profile has resume text and is
\* made with that text, onboarding is completed only with resume content,
\* and a search that completes leaves the profile with the resume text it
\* was started with.
SearchNeedsResume ==
    [][/\ Len(pendingSearches') > Len(pendingSearches) => profile.resumeText # ""
       /\ \A i \in DOMAIN pendingSearches' : pendingSearches'[i].prof.resumeText # ""
       /\ \A t \in onboardingTimers' : t.text # ""
       /\ \A t \in onboardingTimers :
             (handleOnboardingComplete(t) /\ IsProfile(t.prof))
                => (profile'.resumeText = t.text /\ profile'.resumeText # "")
       /\ \A i \in DOMAIN pendingSearches :
             \A raw \in SeqsUpTo(RawJobs, MaxResults), at \in 1..MaxClock :
                (SearchCompletes(i, raw, at) /\ IsProfile(pendingSearches[i].prof))
                   => /\ profile'.resumeText = pendingSearches[i].prof.resumeText
                      /\ profile'.resumeText # ""
      ]_vars

\* the Dashboard is shown, idle, for a profile whose resume text was emptied
\* on the profile page after a search had stored a session
SearchNeedsResumeWitness ==
    /\ DashboardMounted(profile, step)
    /\ profile.resumeText = ""
    /\ profile.history # <<>>
    /\ ~loading
    /\ pendingSearches = <<>>

====
